---- MODULE Spec2Model ----
(***************************************************************************)
(* Model of the FFXIV market bot (src/index.js):                           *)
(*   - the Korean item DB and its loader (loadKoreanItemDB),               *)
(*   - the tiered name search (searchKoreanItem),                          *)
(*   - the price aggregation over the Korea data centre with its per-world *)
(*     fallback (getAllKoreanServerPrices, getAllKoreanServerPricesFallback,*)
(*     getMarketData),                                                     *)
(*   - the summary part of createResultEmbed.                              *)
(* Strings the code inspects character by character (item names, queries)  *)
(* are sequences of one-character strings.  JavaScript's null, undefined    *)
(* and numbers are tagged records, so that `x !== null` and `!x` can be     *)
(* computed as the code computes them.                                      *)
(***************************************************************************)
EXTENDS Integers, Sequences, FiniteSets, TLC

VARIABLES
    \* ---- item DB and search
    dataFile,       \* content of data/items_ko.json: Missing, Corrupt or a list of items
    koreanItemDB,   \* the Map name -> item, in insertion order: sequence of [key, item]
    rpc,            \* "boot" (before the ready event), "ready", "answered"
    query,          \* the argument of the last searchKoreanItem call
    found,          \* what that call returned and computed: [item, suggestions, allMatches, scanned]
    \* ---- price aggregation
    pc,             \* position of the price query: "idle", "unified", "fallback", "done",
                    \* or "error" (an error reached the handler's catch block)
    unifiedCalls,   \* number of GETs issued to /api/v2/Korea/<item>
    unifiedOutcome, \* what that GET answered
    shardCalls,     \* world ids passed to getMarketData, in call order
    shardOutcome,   \* what each of those calls answered, in call order
    results,        \* the `results` array of the running function
    report,         \* the value getAllKoreanServerPrices returned
    embed,          \* the summary createResultEmbed derived from the report
    \* ---- the command that asks for prices by item id
    request         \* the item id the command carried and the title found for it

rvars == <<dataFile, koreanItemDB, rpc, query, found>>
pvars == <<pc, unifiedCalls, unifiedOutcome, shardCalls, shardOutcome, results, report, embed>>
vars == <<dataFile, koreanItemDB, rpc, query, found,
          pc, unifiedCalls, unifiedOutcome, shardCalls, shardOutcome, results, report, embed,
          request>>

(***************************************************************************)
(* JavaScript values                                                       *)
(***************************************************************************)
Null == [t |-> "null"]
Undefined == [t |-> "undefined"]
Num(n) == [t |-> "number", v |-> n]
Str(x) == [t |-> "string", v |-> x]
Bool(b) == [t |-> "boolean", v |-> b]
Arr(a) == [t |-> "array", v |-> a]
\* an object that is not an array (and has no length)
Obj == [t |-> "object"]

\* the truth value JavaScript gives a value in `!x`, `x || y`, `x && y`
Truthy(x) ==
    CASE x.t = "undefined" -> FALSE
      [] x.t = "null" -> FALSE
      [] x.t = "number" -> x.v # 0
      [] x.t = "string" -> x.v # ""
      [] x.t = "boolean" -> x.v
      [] OTHER -> TRUE

\* obj.field of a record that may lack the field
Get(obj, field) == IF field \in DOMAIN obj THEN obj[field] ELSE Undefined

(***************************************************************************)
(* Bounds                                                                  *)
(***************************************************************************)
\* number of entries of the item pool the data file is drawn from
PoolSize == 13
\* listings plus recent sales in one answer of the Korea data centre
MaxListings == 3
\* listings in the answers of the five worlds of one fallback, together
MaxShardListings == 2

(***************************************************************************)
(* Strings                                                                 *)
(***************************************************************************)
LowerOf == [c \in {"H", "O", "P", "S", "T"} |->
              CASE c = "H" -> "h" [] c = "O" -> "o" [] c = "P" -> "p"
                [] c = "S" -> "s" [] c = "T" -> "t"]

toLowerCase(s) == [i \in 1..Len(s) |-> IF s[i] \in DOMAIN LowerOf THEN LowerOf[s[i]] ELSE s[i]]

endsWith(s, q) == Len(q) <= Len(s) /\ SubSeq(s, Len(s) - Len(q) + 1, Len(s)) = q

startsWith(s, q) == Len(q) <= Len(s) /\ SubSeq(s, 1, Len(q)) = q

includes(s, q) == \E i \in 0..(Len(s) - Len(q)) : SubSeq(s, i + 1, i + Len(q)) = q

(***************************************************************************)
(* The data file.  Items are {id, name}; the icon path is not read by the   *)
(* search.  The file is any sub-list of a pool whose order is neither the   *)
(* order of the ids nor of the name lengths, and which holds two names      *)
(* with the same lowercase form ("Pot", "pot").                             *)
(***************************************************************************)
HandWritten == <<
    [id |-> 40, name |-> <<"S", "p", "o", "t">>],
    [id |-> 20, name |-> <<"P", "o", "t", "t", "e", "r", "y">>],
    [id |-> 30, name |-> <<"H", "o", "t", " ", "P", "o", "t">>],
    [id |-> 50, name |-> <<"S", "t", "e", "w">>],
    [id |-> 15, name |-> <<"T", "p", "o", "t">>],
    [id |-> 70, name |-> <<"P", "o", "t">>],
    [id |-> 10, name |-> <<"p", "o", "t">>],
    [id |-> 60, name |-> <<"P", "o", "t", "s">>],
    [id |-> 25, name |-> <<"S", "p", "o", "t", "s">>],
    [id |-> 5,  name |-> <<"O", "p", "o", "t", "s">>] >>

\* pool entries after the hand-written ones: "xpot", "xxpot", ... with falling ids
PoolItem(i) ==
    IF i <= Len(HandWritten) THEN HandWritten[i]
    ELSE [id |-> 100 - i,
          name |-> [k \in 1..(i - Len(HandWritten)) |-> "x"] \o <<"p", "o", "t">>]

Missing == [file |-> "missing"]
Corrupt == [file |-> "corrupt"]

RECURSIVE SubList(_, _)
\* the pool entries whose index is in S, in pool order
SubList(S, i) ==
    IF i > PoolSize THEN <<>>
    ELSE (IF i \in S THEN <<PoolItem(i)>> ELSE <<>>) \o SubList(S, i + 1)

DataFiles == {Missing, Corrupt} \cup {[file |-> "json", data |-> SubList(S, 1)] : S \in SUBSET (1..PoolSize)}

Queries == {
    <<"p", "o", "t">>, <<"P", "O", "T">>, <<"P", "o", "t">>,
    <<"t">>, <<"z">>, <<>>,
    <<"S", "p", "o", "t">>, <<"s", "P", "O", "T">>,
    <<"h", "o", "t", " ", "p", "o", "t">>, <<"x", "p", "o", "t">> }

(***************************************************************************)
(* koreanItemDB: a Map, which iterates in the order keys were first set      *)
(***************************************************************************)
MapHas(m, key) == \E i \in 1..Len(m) : m[i].key = key

MapGet(m, key) == m[CHOOSE i \in 1..Len(m) : m[i].key = key].item

\* a Map whose set keeps the first item of a key
MapSetKeepFirst(m, key, item) ==
    IF MapHas(m, key) THEN m ELSE Append(m, [key |-> key, item |-> item])

MapSet(m, key, item) ==
    IF MapHas(m, key)
    THEN [i \in 1..Len(m) |-> IF m[i].key = key THEN [key |-> key, item |-> item] ELSE m[i]]
    ELSE Append(m, [key |-> key, item |-> item])

RECURSIVE LoadItems(_, _, _)
\* for (const item of data) koreanItemDB.set(item.name.toLowerCase(), item)
LoadItems(m, data, i) ==
    IF i > Len(data) THEN m
    ELSE LoadItems(MapSet(m, toLowerCase(data[i].name), data[i]), data, i + 1)

\* the Map after loadKoreanItemDB: untouched when the file is missing or does not parse
loadKoreanItemDB(m, file) ==
    IF file = Missing THEN m
    ELSE IF file = Corrupt THEN m
    ELSE LoadItems(m, file.data, 1)

(***************************************************************************)
(* searchKoreanItem                                                        *)
(***************************************************************************)
sortFn(a, b) ==
    IF Len(a.name) # Len(b.name) THEN Len(a.name) - Len(b.name) ELSE a.id - b.id

RECURSIVE InsertSorted(_, _)
\* x put into the sorted list s, after the elements that do not compare greater
InsertSorted(s, x) ==
    IF s = <<>> THEN <<x>>
    ELSE IF sortFn(x, Head(s)) < 0 THEN <<x>> \o s
    ELSE <<Head(s)>> \o InsertSorted(Tail(s), x)

RECURSIVE Sort(_)
\* Array.prototype.sort(sortFn): a stable sort by the comparator
Sort(s) == IF s = <<>> THEN <<>> ELSE InsertSorted(Sort(SubSeq(s, 1, Len(s) - 1)), s[Len(s)])

RECURSIVE ScanStartsFirst(_, _, _, _)
\* the classifying loop with the first two tests exchanged
ScanStartsFirst(m, q, i, b) ==
    IF i > Len(m) THEN b
    ELSE LET name == m[i].key
             item == m[i].item
         IN  ScanStartsFirst(m, q, i + 1,
                  IF startsWith(name, q) THEN [b EXCEPT !.starts = Append(@, item)]
                  ELSE IF endsWith(name, q) THEN [b EXCEPT !.ends = Append(@, item)]
                  ELSE IF includes(name, q) THEN [b EXCEPT !.contains = Append(@, item)]
                  ELSE b)

RECURSIVE Scan(_, _, _, _)
\* the classifying loop: each Map entry goes to the first bucket it matches
Scan(m, q, i, b) ==
    IF i > Len(m) THEN b
    ELSE LET name == m[i].key
             item == m[i].item
         IN  Scan(m, q, i + 1,
                  IF endsWith(name, q) THEN [b EXCEPT !.ends = Append(@, item)]
                  ELSE IF startsWith(name, q) THEN [b EXCEPT !.starts = Append(@, item)]
                  ELSE IF includes(name, q) THEN [b EXCEPT !.contains = Append(@, item)]
                  ELSE b)

\* Array.prototype.slice(from, to) with 0 <= from <= to
slice(s, from, to) ==
    SubSeq(s, from + 1, IF to < Len(s) THEN to ELSE Len(s))

\* the cap left out: every match after the first is suggested
suggestionsUncapped(allMatches) == slice(allMatches, 1, Len(allMatches))

\* const suggestions = allMatches.slice(1, 11)
suggestionsOf(allMatches) == slice(allMatches, 1, 11)

searchKoreanItem(m, q) ==
    LET queryLower == toLowerCase(q)
    IN  IF MapHas(m, queryLower)
        THEN [item |-> MapGet(m, queryLower), suggestions |-> <<>>,
              allMatches |-> <<>>, scanned |-> FALSE]
        ELSE LET b == Scan(m, queryLower, 1, [ends |-> <<>>, starts |-> <<>>, contains |-> <<>>])
                 allMatches == Sort(b.ends) \o Sort(b.starts) \o Sort(b.contains)
             IN  IF Len(allMatches) = 0
                 THEN [item |-> Null, suggestions |-> <<>>,
                       allMatches |-> allMatches, scanned |-> TRUE]
                 ELSE [item |-> allMatches[1], suggestions |-> suggestionsOf(allMatches),
                       allMatches |-> allMatches, scanned |-> TRUE]

(***************************************************************************)
(* Prices: the worlds, and what the Universalis API may answer             *)
(***************************************************************************)
\* names and emoji are written in Latin letters
KOREAN_SERVERS == <<
    [id |-> 2075, name |-> "Carbuncle", emoji |-> "gem"],
    [id |-> 2076, name |-> "Chocobo", emoji |-> "chick"],
    [id |-> 2077, name |-> "Moogle", emoji |-> "bear"],
    [id |-> 2078, name |-> "Tonberry", emoji |-> "dagger"],
    [id |-> 2080, name |-> "Fenrir", emoji |-> "wolf"] >>

Prices == {30, 50}
\* the worlds a listing of the data centre's answer may be on: three of the
\* declared ones and one that is not declared
ListingWorlds == {2075, 2076, 2080, 2079}

SeqsUpTo(S, n) == UNION {[1..k -> S] : k \in 0..n}
SeqsOfLen(S, k) == [1..k -> S]

DcListing == [worldID : ListingWorlds, hq : BOOLEAN, pricePerUnit : Prices]
\* a world's own listings: both standard prices and one high-quality price
WorldListing ==
    [hq : {FALSE}, pricePerUnit : Prices] \cup {[hq |-> TRUE, pricePerUnit |-> 30]}
Sale == [hq : BOOLEAN, pricePerUnit : Prices]

\* bodies of a 200 answer of /api/v2/Korea/<item>: well-formed ones, one with
\* neither listings nor recentHistory and one whose listings is an object, not a list
DcBodies ==
    {[listings |-> Arr(L), recentHistory |-> Arr(H),
      worldUploadTimes |-> [t |-> "object", v |-> [w \in {2075, 2080} |-> Num(1700)]], dcName |-> Str("Korea")] :
        <<L, H>> \in UNION {SeqsOfLen(DcListing, k) \X SeqsUpTo(Sale, MaxListings - k) :
                              k \in 0..MaxListings}}
    \cup {[dcName |-> Str("Korea")]}
    \cup {[listings |-> Obj, recentHistory |-> Arr(<<>>)]}

\* what a GET can end in: a 200 answer with a body, another status, or no
\* answer within the timeout.  A GET that cannot connect is rejected by axios
\* in the same way, without a response, and differs only in the message.
Timeout == [kind |-> "timeout"]
Status(n) == [kind |-> "status", status |-> n]
Ok(body) == [kind |-> "ok", data |-> body]

DcAnswers == {Timeout, Status(404)} \cup {Ok(b) : b \in DcBodies}

\* bodies of a 200 answer of /api/v2/<world>/<item> with at most n listings: the
\* world's listings and its own recent sales, or the JSON value null
WorldBodies(n) ==
    {[listings |-> Arr(L), recentHistory |-> Arr(<<[hq |-> FALSE, pricePerUnit |-> 30]>>),
      lastUploadTime |-> Num(1700)] : L \in SeqsUpTo(WorldListing, n)}
    \cup {Null}

WorldAnswers(n) == {Timeout, Status(404)} \cup {Ok(b) : b \in WorldBodies(n)}

\* axios.get: the body of a 200 answer, or a thrown error that carries the
\* status of the answer when there was one
AxiosGet(answer) ==
    CASE answer.kind = "ok" -> [ret |-> answer.data]
      [] answer.kind = "timeout" ->
            [thrown |-> [message |-> "timeout exceeded", response |-> Undefined]]
      [] answer.kind = "status" ->
            [thrown |-> [message |-> "Request failed", response |-> [status |-> answer.status]]]

Threw(r) == "thrown" \in DOMAIN r

\* a TypeError raised by reading a property of null or calling a non-function
TypeError == [thrown |-> [message |-> "TypeError", response |-> Undefined]]

(***************************************************************************)
(* getMarketData                                                           *)
(***************************************************************************)
\* a 404 rethrown like any other error
getMarketDataRethrows(answer) == AxiosGet(answer)

getMarketData(answer) ==
    LET r == AxiosGet(answer)
    IN  IF ~Threw(r) THEN r
        ELSE IF r.thrown.response # Undefined /\ r.thrown.response.status = 404
             THEN [ret |-> [hasData |-> Bool(FALSE), listings |-> Arr(<<>>),
                            recentHistory |-> Arr(<<>>)]]
             ELSE r

(***************************************************************************)
(* Minimum prices                                                          *)
(***************************************************************************)
RECURSIVE MathMax(_)
\* the greatest pricePerUnit of a non-empty list
MathMax(a) ==
    IF Len(a) = 1 THEN a[1].pricePerUnit
    ELSE LET rest == MathMax(Tail(a))
         IN  IF a[1].pricePerUnit > rest THEN a[1].pricePerUnit ELSE rest

RECURSIVE MathMin(_)
\* Math.min(...a.map(l => l.pricePerUnit)) of a non-empty list
MathMin(a) ==
    IF Len(a) = 1 THEN a[1].pricePerUnit
    ELSE LET rest == MathMin(Tail(a))
         IN  IF a[1].pricePerUnit < rest THEN a[1].pricePerUnit ELSE rest

\* nqListings = a.filter(l => !l.hq), hqListings = a.filter(l => l.hq)
ofQuality(a, hq) == LET Test(l) == l.hq = hq IN SelectSeq(a, Test)

\* null, or the least pricePerUnit of the entries of the list with that quality
minPrice(a, hq) ==
    LET sel == ofQuality(a, hq) IN IF Len(sel) > 0 THEN Num(MathMin(sel)) ELSE Null

(***************************************************************************)
(* getAllKoreanServerPrices: the data centre's answer split by world        *)
(***************************************************************************)
\* data.listings || [] ; a TypeError when that value has no filter method
listingsOrEmpty(data) ==
    LET l == Get(data, "listings")
    IN  IF ~Truthy(l) THEN [ret |-> <<>>]
        ELSE IF l.t = "array" THEN [ret |-> l.v]
        ELSE TypeError

\* data.worldUploadTimes?.[server.id] || null
worldUploadTime(data, id) ==
    LET times == Get(data, "worldUploadTimes")
    IN  IF times.t = "undefined" THEN Null
        ELSE IF id \in DOMAIN times.v /\ Truthy(times.v[id]) THEN times.v[id] ELSE Null

\* the entry pushed for one world from the listings of the whole data centre
dcServerEntry(server, listings, data) ==
    LET OnServer(l) == l.worldID = server.id
        serverListings == SelectSeq(listings, OnServer)
        listingCount == Len(serverListings)
    IN  [server |-> server.name, serverId |-> server.id, emoji |-> server.emoji,
         hasData |-> Bool(listingCount > 0),
         listingCount |-> listingCount,
         minPriceNQ |-> IF listingCount > 0 THEN minPrice(serverListings, FALSE) ELSE Null,
         minPriceHQ |-> IF listingCount > 0 THEN minPrice(serverListings, TRUE) ELSE Null,
         lastUploadTime |-> worldUploadTime(data, server.id)]

\* the price of the latest sale of the quality instead of the least
recentTradeFirst(data, hq) ==
    LET h == Get(data, "recentHistory")
    IN  IF Truthy(h) /\ h.t = "array" /\ Len(ofQuality(h.v, hq)) > 0
        THEN Num(ofQuality(h.v, hq)[1].pricePerUnit) ELSE Null

\* the least recent sale price of a quality over data.recentHistory, or null
recentTradeMin(data, hq) ==
    LET h == Get(data, "recentHistory")
    IN  IF Truthy(h) /\ h.t = "array" /\ Len(h.v) > 0 THEN minPrice(h.v, hq) ELSE Null

\* data.dcName || 'Korea'
dcNameOf(data) ==
    LET n == Get(data, "dcName") IN IF Truthy(n) THEN n ELSE Str("Korea")

\* the try block of getAllKoreanServerPrices on the body of a 200 answer: the
\* returned object, or the error thrown on the way
decompose(data) ==
    LET l == listingsOrEmpty(data)
    IN  IF Threw(l) THEN l
        ELSE [ret |->
                [servers |-> [i \in 1..Len(KOREAN_SERVERS) |->
                                 dcServerEntry(KOREAN_SERVERS[i], l.ret, data)],
                 recentTradeMinNQ |-> recentTradeMin(data, FALSE),
                 recentTradeMinHQ |-> recentTradeMin(data, TRUE),
                 dcName |-> dcNameOf(data)]]

\* the try block of getAllKoreanServerPrices from the GET on: the returned
\* object, or the error thrown by axios or on the way
unifiedTry(answer) ==
    LET r == AxiosGet(answer) IN IF Threw(r) THEN r ELSE decompose(r.ret)

(***************************************************************************)
(* getAllKoreanServerPricesFallback: one world                              *)
(***************************************************************************)
\* a catch block that records the failed world as one with nothing on sale
errorEntryAsEmpty(server, error) ==
    [server |-> server.name, serverId |-> server.id, emoji |-> server.emoji,
     hasData |-> Bool(FALSE), listingCount |-> 0, minPriceNQ |-> Null, minPriceHQ |-> Null,
     lastUploadTime |-> Undefined]

\* the entry pushed by the catch block
errorEntry(server, error) ==
    [server |-> server.name, serverId |-> server.id, emoji |-> server.emoji,
     error |-> Str(error.message)]

\* the entry pushed by the try block from the body getMarketData returned
dataEntry(server, data) ==
    LET l == Get(data, "listings")
        has == Truthy(l) /\ l.t = "array" /\ Len(l.v) > 0
    IN  [server |-> server.name, serverId |-> server.id, emoji |-> server.emoji,
         hasData |-> Get(data, "hasData"),
         listingCount |-> IF has THEN Len(l.v) ELSE 0,
         minPriceNQ |-> IF has THEN minPrice(l.v, FALSE) ELSE Null,
         minPriceHQ |-> IF has THEN minPrice(l.v, TRUE) ELSE Null,
         lastUploadTime |-> Get(data, "lastUploadTime")]

\* one turn of the loop: the entry pushed for `server` when its GET ends in `answer`;
\* reading data.listings of a null body throws inside the try block
serverEntry(server, answer) ==
    LET r == getMarketData(answer)
    IN  IF Threw(r) THEN errorEntry(server, r.thrown)
        ELSE IF r.ret = Null THEN errorEntry(server, TypeError.thrown)
        ELSE dataEntry(server, r.ret)

\* a loop whose body has no try/catch: the error of getMarketData leaves the function
fallbackTurnNoCatch(server, answer) ==
    LET r == getMarketData(answer)
    IN  IF Threw(r) THEN r ELSE [ret |-> serverEntry(server, answer)]

\* what one turn of the loop ends in: try and catch both push an entry, nothing is thrown
fallbackTurn(server, answer) == [ret |-> serverEntry(server, answer)]

\* the object the fallback returns
fallbackReport(entries) ==
    [servers |-> entries, recentTradeMinNQ |-> Null, recentTradeMinHQ |-> Null,
     dcName |-> Str("Korea")]

(***************************************************************************)
(* createResultEmbed: the overall minima, the stars and the "no data" text  *)
(***************************************************************************)
\* servers.filter(r => !r.error && r.minPriceNQ !== null)
serversWithNQ(servers) ==
    LET Test(r) == ~Truthy(Get(r, "error")) /\ Get(r, "minPriceNQ") # Null
    IN  SelectSeq(servers, Test)

serversWithHQ(servers) ==
    LET Test(r) == ~Truthy(Get(r, "error")) /\ Get(r, "minPriceHQ") # Null
    IN  SelectSeq(servers, Test)

\* a loop that keeps the first price it meets
overallFirst(list, field, min) ==
    IF list = <<>> THEN min ELSE Head(list)[field]

RECURSIVE overallMin(_, _, _)
\* the loop `if (min === null || r[field] < min) min = r[field]` over the list
overallMin(list, field, min) ==
    IF list = <<>> THEN min
    ELSE overallMin(Tail(list), field,
                    IF min = Null \/ Head(list)[field].v < min.v THEN Head(list)[field] ELSE min)

createResultEmbed(data) ==
    LET servers == data.servers
        withNQ == serversWithNQ(servers)
        withHQ == serversWithHQ(servers)
        overallMinNQ == overallMin(withNQ, "minPriceNQ", Null)
        overallMinHQ == overallMin(withHQ, "minPriceHQ", Null)
        isMin(r) ==
            /\ ~Truthy(Get(r, "error"))
            /\ \/ Get(r, "minPriceNQ") = overallMinNQ /\ overallMinNQ # Null
               \/ Get(r, "minPriceHQ") = overallMinHQ /\ overallMinHQ # Null
    IN  [overallMinNQ |-> overallMinNQ,
         overallMinHQ |-> overallMinHQ,
         failed |-> [i \in 1..Len(servers) |-> Truthy(Get(servers[i], "error"))],
         starred |-> [i \in 1..Len(servers) |->
                        /\ isMin(servers[i])
                        /\ \/ Get(servers[i], "minPriceNQ") # Null
                           \/ Get(servers[i], "minPriceHQ") # Null],
         recentShown |-> data.recentTradeMinNQ # Null \/ data.recentTradeMinHQ # Null,
         noData |-> Len(withNQ) = 0 /\ Len(withHQ) = 0]

(***************************************************************************)
(* The item DB as a state machine                                          *)
(***************************************************************************)
NoAnswer == [item |-> Null, suggestions |-> <<>>, allMatches |-> <<>>, scanned |-> FALSE]

InitResolver ==
    /\ dataFile \in DataFiles
    /\ koreanItemDB = <<>>
    /\ rpc = "boot"
    /\ query = <<>>
    /\ found = NoAnswer
    /\ pc = "idle"
    /\ unifiedCalls = 0
    /\ unifiedOutcome = Undefined
    /\ shardCalls = <<>>
    /\ shardOutcome = <<>>
    /\ results = <<>>
    /\ report = Undefined
    /\ embed = Undefined
    /\ request = Undefined

\* client.once('ready'): the DB is loaded once
Ready ==
    /\ rpc = "boot"
    /\ koreanItemDB' = loadKoreanItemDB(koreanItemDB, dataFile)
    /\ rpc' = "ready"
    /\ UNCHANGED <<dataFile, query, found>>

\* a call of searchKoreanItem(q).  The search reads the DB and writes nothing,
\* so a second call reaches no state the first cannot: one call is modelled.
Search ==
    /\ rpc = "ready"
    /\ \E q \in Queries :
          /\ query' = q
          /\ found' = searchKoreanItem(koreanItemDB, q)
    /\ rpc' = "answered"
    /\ UNCHANGED <<dataFile, koreanItemDB>>

InitPrices ==
    /\ dataFile = Missing
    /\ koreanItemDB = <<>>
    /\ rpc = "boot"
    /\ query = <<>>
    /\ found = NoAnswer
    /\ pc = "idle"
    /\ unifiedCalls = 0
    /\ unifiedOutcome = Undefined
    /\ shardCalls = <<>>
    /\ shardOutcome = <<>>
    /\ results = <<>>
    /\ report = Undefined
    /\ embed = Undefined
    /\ request = Undefined

(***************************************************************************)
(* One price query: the message handler from getAllKoreanServerPrices on    *)
(***************************************************************************)
\* getAllKoreanServerPrices is called: the GET of the data centre is issued
StartQuery ==
    /\ pc = "idle"
    /\ unifiedCalls' = unifiedCalls + 1
    /\ pc' = "unified"
    /\ UNCHANGED <<unifiedOutcome, shardCalls, shardOutcome, results, report, embed>>

\* the GET of the data centre ends: the try block returns the report, which the
\* handler summarises, or the catch block enters the fallback
UnifiedAnswer ==
    /\ pc = "unified"
    /\ \E answer \in DcAnswers :
          /\ unifiedOutcome' = answer
          /\ LET r == unifiedTry(answer)
             IN  IF Threw(r)
                 THEN /\ pc' = "fallback"
                      /\ UNCHANGED <<report, embed>>
                 ELSE /\ pc' = "done"
                      /\ report' = r.ret
                      /\ embed' = createResultEmbed(r.ret)
    /\ UNCHANGED <<unifiedCalls, shardCalls, shardOutcome, results, request>>

\* listings in the answers the fallback has received
RECURSIVE ListingsIn(_)
ListingsIn(answers) ==
    IF answers = <<>> THEN 0
    ELSE (IF Head(answers).kind = "ok" /\ Head(answers).data # Null
          THEN Len(Head(answers).data.listings.v) ELSE 0) + ListingsIn(Tail(answers))

\* a loop that walks the worlds from the last to the first
nextServerReversed(entries) == KOREAN_SERVERS[Len(KOREAN_SERVERS) - Len(entries)]

\* the world the loop is at
nextServer(entries) == KOREAN_SERVERS[Len(entries) + 1]

\* one turn of the fallback loop: getMarketData for the next world and the push
\* of its entry; after the last world the report is returned and summarised.
\* An error leaving the function would reach the handler's catch block.
FallbackShard ==
    /\ pc = "fallback"
    /\ Len(results) < Len(KOREAN_SERVERS)
    /\ \E answer \in WorldAnswers(MaxShardListings - ListingsIn(shardOutcome)) :
          LET server == nextServer(results)
              turn == fallbackTurn(server, answer)
          IN  /\ shardCalls' = Append(shardCalls, server.id)
              /\ shardOutcome' = Append(shardOutcome, answer)
              /\ IF Threw(turn)
                 THEN /\ pc' = "error"
                      /\ UNCHANGED <<results, report, embed>>
                 ELSE /\ results' = Append(results, turn.ret)
                      /\ IF Len(results') = Len(KOREAN_SERVERS)
                         THEN /\ pc' = "done"
                              /\ report' = fallbackReport(results')
                              /\ embed' = createResultEmbed(fallbackReport(results'))
                         ELSE /\ pc' = "fallback"
                              /\ UNCHANGED <<report, embed>>
    /\ UNCHANGED <<unifiedCalls, unifiedOutcome, request>>

NextPrices ==
    \/ StartQuery /\ UNCHANGED <<rvars, request>>
    \/ UnifiedAnswer /\ UNCHANGED rvars
    \/ FallbackShard /\ UNCHANGED rvars

SpecPrices == InitPrices /\ [][NextPrices]_vars

\* the try block of getAllKoreanServerPrices alone: the query ends with the
\* unified report or at the entry of the fallback
NextUnified ==
    \/ StartQuery /\ UNCHANGED <<rvars, request>>
    \/ UnifiedAnswer /\ UNCHANGED rvars

SpecUnified == InitPrices /\ [][NextUnified]_vars

NextResolver ==
    \/ Ready /\ UNCHANGED <<pvars, request>>
    \/ Search /\ UNCHANGED <<pvars, request>>

SpecResolver == InitResolver /\ [][NextResolver]_vars

(***************************************************************************)
(* Properties of the search                                                *)
(***************************************************************************)
Pot == <<"p", "o", "t">>

\* the tier of a name for a query: the first it matches of ends-with, starts-with, contains
TierRank(name, q) ==
    IF endsWith(name, q) THEN 1 ELSE IF startsWith(name, q) THEN 2 ELSE 3

\* the composite key (tier rank, name length, id), compared lexicographically
KeyBefore(a, b, q) ==
    LET ta == TierRank(toLowerCase(a.name), q)
        tb == TierRank(toLowerCase(b.name), q)
    IN  \/ ta < tb
        \/ ta = tb /\ Len(a.name) < Len(b.name)
        \/ ta = tb /\ Len(a.name) = Len(b.name) /\ a.id < b.id

\* the items the index holds whose normalized name contains q
Containing(q) ==
    {koreanItemDB[i].item : i \in {j \in 1..Len(koreanItemDB) : includes(koreanItemDB[j].key, q)}}

\* the general part of C8: the match list (before the cap) holds exactly the
\* index entries whose normalized name contains the query, each once, in
\* strictly ascending order of (tier rank, name length, id)
SortedByCompositeKey ==
    LET q == toLowerCase(query)
        M == found.allMatches
    IN  /\ {M[i] : i \in 1..Len(M)} = Containing(q)
        /\ Len(M) = Cardinality(Containing(q))
        /\ \A i \in 1..Len(M) : \A j \in 1..Len(M) : i < j => KeyBefore(M[i], M[j], q)

\* the catalog {Spot, Pottery, Hot Pot} asked for "pot"
SpotPotteryHotPot ==
    /\ dataFile = [file |-> "json", data |-> SubSeq(HandWritten, 1, 3)]
    /\ toLowerCase(query) = Pot

\* C8 as stated: with no exact match the match list is the entries containing
\* the query sorted by (tier rank, name length, id), and the catalog
\* {Spot, Pottery, Hot Pot} with query "pot" gives [Spot, Pottery, Hot Pot].
C8_AsStated ==
    (rpc = "answered" /\ found.scanned) =>
        /\ SortedByCompositeKey
        /\ SpotPotteryHotPot =>
              found.allMatches = <<HandWritten[1], HandWritten[2], HandWritten[3]>>

\* C8 amended: with no exact match the match list is the entries containing the
\* query sorted by (tier rank, name length, id), and the catalog
\* {Spot, Pottery, Hot Pot} with query "pot" gives [Spot, Hot Pot, Pottery]:
\* "hot pot" ends with "pot", so it is in the ends-with tier, after the shorter Spot.
C8_TieredOrder ==
    (rpc = "answered" /\ found.scanned) =>
        /\ SortedByCompositeKey
        /\ SpotPotteryHotPot =>
              found.allMatches = <<HandWritten[1], HandWritten[3], HandWritten[2]>>

\* C8 witness: a scan that filled all three tiers, with two names of one tier
\* and one length (Tpot, Spot) ordered by id
C8_Witness ==
    /\ rpc = "answered" /\ found.scanned /\ query = Pot
    /\ Len(found.allMatches) >= 5
    /\ found.allMatches[1] = HandWritten[5]
    /\ found.allMatches[2] = HandWritten[1]
    /\ \E i \in 1..Len(found.allMatches) : found.allMatches[i] = HandWritten[2]
    /\ \E i \in 1..Len(found.allMatches) : found.allMatches[i] = HandWritten[9]

\* the entries of the data file whose normalized name is the normalized query
SameKey ==
    IF dataFile \in {Missing, Corrupt} THEN {}
    ELSE {i \in 1..Len(dataFile.data) : toLowerCase(dataFile.data[i].name) = toLowerCase(query)}

\* C9 as stated: whichever entry E of the catalog has the queried name (in any
\* letter case), the search returns E itself, with no suggestions and no scan.
C9_ExactReturnsEntry ==
    rpc = "answered" =>
        \A i \in SameKey :
            /\ found.item = dataFile.data[i]
            /\ found.suggestions = <<>>
            /\ ~found.scanned

Max(S) == CHOOSE x \in S : \A y \in S : y <= x

\* C9 amended: when entries of the catalog have the queried name (in any letter
\* case), the search returns the last-loaded of them, with no suggestions and
\* no scan; so it returns E itself unless a later entry normalizes to E's key.
C9_ExactReturnsLastLoaded ==
    (rpc = "answered" /\ SameKey # {}) =>
        /\ found.item = dataFile.data[Max(SameKey)]
        /\ found.suggestions = <<>>
        /\ ~found.scanned

\* C9 witness: "POT" asked of a catalog holding Pot, then pot, and names that
\* contain it; the later-loaded pot is returned
C9_Witness ==
    /\ rpc = "answered"
    /\ query = <<"P", "O", "T">>
    /\ Cardinality(SameKey) = 2
    /\ Len(dataFile.data) >= 4
    /\ found.item = HandWritten[7]
    /\ found.suggestions = <<>>

\* C10: with no exact match and m matches, primary is the first match and the
\* suggestions are the matches at positions 2..min(m, 11) in order: never the
\* primary, never more than 10, exactly 10 when m >= 11; none when m = 0.
C10_AlternatesCap ==
    (rpc = "answered" /\ found.scanned) =>
        LET M == found.allMatches
            m == Len(M)
            S == found.suggestions
        IN  IF m = 0 THEN found.item = Null /\ S = <<>>
            ELSE /\ found.item = M[1]
                 /\ Len(S) = (IF m - 1 < 10 THEN m - 1 ELSE 10)
                 /\ \A i \in 1..Len(S) : S[i] = M[i + 1]
                 /\ \A i \in 1..Len(S) : S[i] # found.item
                 /\ Len(S) <= 10
                 /\ (m >= 11 => Len(S) = 10)

\* C10 witness: more than 11 matches, 10 of them suggested
C10_Witness ==
    /\ rpc = "answered" /\ found.scanned
    /\ Len(found.allMatches) > 11
    /\ Len(found.suggestions) = 10

(***************************************************************************)
(* Properties of the price query                                           *)
(***************************************************************************)
DeclaredIds == [i \in 1..Len(KOREAN_SERVERS) |-> KOREAN_SERVERS[i].id]

\* the Fallback Coordinator has been entered
FellBack == pc = "fallback" \/ shardCalls # <<>>

\* an entry carries a failure marker
Marked(e) == "error" \in DOMAIN e

\* a GET that failed: no answer, an error status, or a body that is not an object
Failed(answer) ==
    \/ answer.kind = "timeout"
    \/ answer.kind = "status" /\ answer.status # 404
    \/ answer.kind = "ok" /\ answer.data = Null

\* the listings a world's answer holds: none for a 404
ListingsOf(answer) ==
    IF answer.kind = "ok" /\ answer.data # Null /\ Get(answer.data, "listings").t = "array"
    THEN answer.data.listings.v ELSE <<>>

\* null, or the least element of the set of prices of that quality
LeastPrice(list, hq) ==
    LET S == {list[i].pricePerUnit : i \in {j \in 1..Len(list) : list[j].hq = hq}}
    IN  IF S = {} THEN Null ELSE Num(CHOOSE p \in S : \A r \in S : p <= r)

\* C1 as stated: a 404 of the data centre's GET is an empty result: the report
\* is returned with listingCount 0 and no failure marker for each of the five
\* worlds, and no GET of a single world is issued.
C1_NotFoundIsEmptyResult ==
    (unifiedOutcome = Status(404)) =>
        /\ pc = "done"
        /\ shardCalls = <<>>
        /\ \A i \in 1..Len(KOREAN_SERVERS) :
              /\ ~Marked(report.servers[i])
              /\ report.servers[i].listingCount = 0

\* a body that breaks the {listings, recentHistory, worldUploadTimes} shape
Malformed(answer) ==
    /\ answer.kind = "ok"
    /\ \/ Get(answer.data, "listings").t # "array"
       \/ Get(answer.data, "recentHistory").t # "array"

\* C2 as stated: the data centre's GET is issued once and never again, and when
\* it ends in a timeout, a transport error or a malformed body the fallback
\* runs and the report is the fallback's.
C2_FailureTriggersFallback ==
    /\ unifiedCalls <= 1
    /\ pc # "idle" => unifiedCalls = 1
    /\ (pc \notin {"idle", "unified"}
        /\ (unifiedOutcome.kind = "timeout" \/ Malformed(unifiedOutcome)))
          => /\ FellBack
             /\ pc = "done" => report = fallbackReport(results)

AnsweredEmpty(answer) ==
    \/ answer = Status(404)
    \/ answer.kind = "ok" /\ answer.data # Null /\ ListingsOf(answer) = <<>>

\* C4: in the fallback a world whose GET answers 404, or 200 with no listing,
\* gets an entry with listingCount 0, no minimum and no failure marker, unlike
\* the entry of any world whose GET failed.
C4_NotFoundIsEmpty ==
    \A i \in 1..Len(results) :
        AnsweredEmpty(shardOutcome[i]) =>
            /\ ~Marked(results[i])
            /\ results[i].listingCount = 0
            /\ results[i].minPriceNQ = Null
            /\ results[i].minPriceHQ = Null
            /\ \A j \in 1..Len(results) : Failed(shardOutcome[j]) => results[j] # results[i]

\* C4 witness: a returned fallback report with a world that answered 404, one
\* that answered an empty list and one that failed
C4_Witness ==
    /\ pc = "done" /\ FellBack
    /\ shardOutcome[1] = Status(404)
    /\ shardOutcome[2].kind = "ok" /\ AnsweredEmpty(shardOutcome[2])
    /\ Failed(shardOutcome[3])
    /\ report.servers[1].listingCount = 0 /\ ~Marked(report.servers[1])

\* no entry of the report has a price
NoPrices ==
    \A i \in 1..Len(report.servers) :
        \/ Marked(report.servers[i])
        \/ report.servers[i].minPriceNQ = Null /\ report.servers[i].minPriceHQ = Null

\* C5: no error leaves getAllKoreanServerPrices and the query never stops short
\* of a report; the report has one entry per declared world, whatever the data
\* centre and the worlds answered; when no entry has a price the summary is
\* flagged "no data".
C5_ReportAlwaysProduced ==
    /\ pc \in {"idle", "unified", "fallback", "done"}
    /\ pc = "fallback" => Len(results) < Len(KOREAN_SERVERS)
    /\ pc = "done" =>
          /\ Len(report.servers) = Len(KOREAN_SERVERS)
          /\ \A k \in 1..Len(KOREAN_SERVERS) :
                Cardinality({i \in 1..Len(report.servers) :
                               report.servers[i].serverId = KOREAN_SERVERS[k].id}) = 1
          /\ NoPrices => embed.noData

\* C5 witness: the data centre's GET failed and so did all five worlds'; the
\* report is there and flagged "no data"
C5_Witness ==
    /\ pc = "done"
    /\ unifiedOutcome = Timeout
    /\ \A i \in 1..5 : Failed(shardOutcome[i])
    /\ Len(report.servers) = 5
    /\ embed.noData

\* C6: the entries of every report, unified or fallback, are those of the
\* declared worlds in declared order: 2075, 2076, 2077, 2078, 2080.
C6_DeclaredOrder ==
    pc = "done" =>
        [i \in 1..Len(report.servers) |-> report.servers[i].serverId]
            = <<2075, 2076, 2077, 2078, 2080>>

\* C6 witness: a fallback report whose first world failed and whose last sells
C6_Witness ==
    /\ pc = "done" /\ FellBack
    /\ Failed(shardOutcome[1])
    /\ ~Marked(report.servers[5])
    /\ report.servers[5].listingCount > 0
    /\ report.servers[5].serverId = 2080

\* the recent sales of the data centre's answer
HistoryOf(answer) ==
    IF Get(answer.data, "recentHistory").t = "array" THEN answer.data.recentHistory.v ELSE <<>>

\* the recent-trade minima of the fallback are null and those of a unified report
\* are the least recent sale price of each quality
RecentTradeMinima ==
    /\ FellBack => report.recentTradeMinNQ = Null /\ report.recentTradeMinHQ = Null
    /\ ~FellBack =>
          /\ report.recentTradeMinNQ = LeastPrice(HistoryOf(unifiedOutcome), FALSE)
          /\ report.recentTradeMinHQ = LeastPrice(HistoryOf(unifiedOutcome), TRUE)

PayloadListings ==
    IF unifiedOutcome.kind = "ok" /\ "listings" \in DOMAIN unifiedOutcome.data
       /\ unifiedOutcome.data.listings.t = "array"
    THEN unifiedOutcome.data.listings.v ELSE <<>>

\* the positions of the payload listings of one world
OfShard(id) == {j \in 1..Len(PayloadListings) : PayloadListings[j].worldID = id}

\* the prices of the payload listings of one world and one quality
PricesOf(id, hq) ==
    {PayloadListings[j].pricePerUnit : j \in {k \in OfShard(id) : PayloadListings[k].hq = hq}}

\* absent when there is no such price, else the least of them
LeastOf(S) == IF S = {} THEN Null ELSE Num(CHOOSE p \in S : \A o \in S : p <= o)

\* C11: in a unified report, each declared world's entry carries, for each
\* quality, the least pricePerUnit of the payload listings of that world and
\* that quality, null (never zero) when there is none, and listingCount is the
\* number of payload listings of that world
C11_ShardMinima ==
    (pc = "done" /\ ~FellBack) =>
        \A i \in 1..Len(KOREAN_SERVERS) :
            LET e == report.servers[i]
                id == KOREAN_SERVERS[i].id
            IN  /\ e.serverId = id
                /\ e.listingCount = Cardinality(OfShard(id))
                /\ e.minPriceNQ = LeastOf(PricesOf(id, FALSE))
                /\ e.minPriceHQ = LeastOf(PricesOf(id, TRUE))
                /\ e.minPriceNQ # Num(0) /\ e.minPriceHQ # Num(0)

\* a unified report of a payload where the first world has two standard
\* listings, the dearer first, and another world has a high-quality one
C11_Witness ==
    /\ pc = "done" /\ ~FellBack
    /\ Len(PayloadListings) = 3
    /\ PayloadListings[1] = [worldID |-> 2075, hq |-> FALSE, pricePerUnit |-> 50]
    /\ PayloadListings[2] = [worldID |-> 2075, hq |-> FALSE, pricePerUnit |-> 30]
    /\ PayloadListings[3] = [worldID |-> 2076, hq |-> TRUE, pricePerUnit |-> 30]
    /\ report.servers[1].listingCount = 2
    /\ report.servers[1].minPriceNQ = Num(30)
    /\ report.servers[1].minPriceHQ = Null
    /\ report.servers[2].minPriceHQ = Num(30)
    /\ report.servers[3].listingCount = 0
    /\ report.servers[3].minPriceNQ = Null

(***************************************************************************)
(* Properties of the summary                                               *)
(***************************************************************************)
\* the worlds of the report whose entry has no failure marker and a price of that field
Priced(field) ==
    {i \in 1..Len(report.servers) :
        ~Marked(report.servers[i]) /\ report.servers[i][field] # Null}

\* the prices of that field over the worlds that have one
PresentPrices(field) == {report.servers[i][field].v : i \in Priced(field)}

\* the worlds the summary marks with a star
Flagged == {i \in 1..Len(report.servers) : embed.starred[i]}

\* the worlds whose present price of either quality equals the overall minimum of it
Cheapest ==
    {i \in Priced("minPriceNQ") : report.servers[i].minPriceNQ = embed.overallMinNQ}
    \cup {i \in Priced("minPriceHQ") : report.servers[i].minPriceHQ = embed.overallMinHQ}

\* C12: in the summary of a report, each overall minimum is the least of that
\* field over the worlds where it is present and null when no world has it; a
\* world is starred exactly when its present price of one quality equals the
\* overall minimum of that quality, so that ties are all starred, and a world
\* with no price or with a failure marker is never starred
C12_OverallMinAndStars ==
    pc = "done" =>
        /\ embed.overallMinNQ = LeastOf(PresentPrices("minPriceNQ"))
        /\ embed.overallMinHQ = LeastOf(PresentPrices("minPriceHQ"))
        /\ Flagged = Cheapest
        /\ \A i \in 1..Len(report.servers) :
              /\ Marked(report.servers[i]) => ~embed.starred[i]
              /\ (i \notin Priced("minPriceNQ") /\ i \notin Priced("minPriceHQ"))
                    => ~embed.starred[i]

\* the standard minima 50, 30, null, null, 30 over the five worlds and no
\* high-quality price: exactly the two worlds with 30 are starred
C12_Witness ==
    /\ pc = "done" /\ ~FellBack
    /\ [i \in 1..5 |-> report.servers[i].minPriceNQ]
         = <<Num(50), Num(30), Null, Null, Num(30)>>
    /\ Priced("minPriceHQ") = {}
    /\ embed.overallMinNQ = Num(30)
    /\ embed.overallMinHQ = Null
    /\ Flagged = {2, 5}

(***************************************************************************)
(* The process: the ready event, then one command                          *)
(***************************************************************************)
\* the data files the process is started with: none, an unparsable one, a small one
ProcessFiles == {Missing, Corrupt, [file |-> "json", data |-> SubList({1, 2, 3}, 1)]}

\* parseInt of the text after the command: 0 stands for the rejected values
ItemIds == {0, 40}

RECURSIVE itemTitle(_, _, _)
\* the loop over koreanItemDB that looks for the item's name, from entry i on;
\* the default title names the id
itemTitle(m, itemId, i) ==
    IF i > Len(m) THEN [named |-> FALSE, id |-> itemId]
    ELSE IF m[i].item.id = itemId THEN [named |-> TRUE, name |-> m[i].item.name]
    ELSE itemTitle(m, itemId, i + 1)

InitProcess ==
    /\ dataFile \in ProcessFiles
    /\ koreanItemDB = <<>>
    /\ rpc = "boot"
    /\ query = <<>>
    /\ found = NoAnswer
    /\ pc = "idle"
    /\ unifiedCalls = 0
    /\ unifiedOutcome = Undefined
    /\ shardCalls = <<>>
    /\ shardOutcome = <<>>
    /\ results = <<>>
    /\ report = Undefined
    /\ embed = Undefined
    /\ request = Undefined

\* a handler that answers by id only when the item DB holds something
IdQueryNeedsCatalog ==
    /\ rpc # "boot"
    /\ Len(koreanItemDB) > 0
    /\ \E itemId \in ItemIds :
          /\ itemId > 0
          /\ request' = [itemId |-> itemId, itemName |-> itemTitle(koreanItemDB, itemId, 1)]
    /\ StartQuery

\* the handler of the price-by-id command up to its call of
\* getAllKoreanServerPrices: the id is parsed and checked, the title looked up
IdQuery ==
    /\ rpc # "boot"
    /\ \E itemId \in ItemIds :
          /\ itemId > 0
          /\ request' = [itemId |-> itemId, itemName |-> itemTitle(koreanItemDB, itemId, 1)]
    /\ StartQuery

\* at most one listing or sale in all the answers of the price service
SmallMarket ==
    ListingsIn(shardOutcome)
    + (IF unifiedOutcome.kind = "ok"
       THEN Len(PayloadListings) + Len(HistoryOf(unifiedOutcome)) ELSE 0) <= 1

\* The process handles one command after the ready event.  The two handlers
\* share no state but the item DB, which neither writes, so a run with more
\* commands reaches no combination of DB and report that these runs do not.
NextProcess ==
    \/ Ready /\ UNCHANGED <<pvars, request>>
    \/ Search /\ pc = "idle" /\ UNCHANGED <<pvars, request>>
    \/ IdQuery /\ rpc = "ready" /\ UNCHANGED rvars
    \/ UnifiedAnswer /\ SmallMarket' /\ UNCHANGED rvars
    \/ FallbackShard /\ SmallMarket' /\ UNCHANGED rvars

SpecProcess == InitProcess /\ [][NextProcess]_vars

(***************************************************************************)
(* Properties of the process without an item DB                            *)
(***************************************************************************)
\* the data file is missing or does not parse
Degraded == dataFile \in {Missing, Corrupt}

\* the report as a function of the price service's answers and of nothing else
ReportOf(unified, shards) ==
    LET r == unifiedTry(unified)
    IN  IF ~Threw(r) THEN r.ret
        ELSE fallbackReport([i \in 1..Len(KOREAN_SERVERS) |->
                                serverEntry(KOREAN_SERVERS[i], shards[i])])

\* C13: when the data file is missing or does not parse, the ready event
\* leaves an empty item DB and the process goes on; every text search then
\* returns no item and no suggestions; the command by numeric id is still
\* served, and its report is the one the answers of the price service
\* determine, the same with an empty item DB as with a loaded one
C13_DegradedCatalog ==
    /\ (Degraded /\ rpc # "boot") => koreanItemDB = <<>>
    /\ (rpc = "answered" /\ koreanItemDB = <<>>) =>
          found.item = Null /\ found.suggestions = <<>>
    /\ (rpc = "ready" /\ pc = "idle") => ENABLED IdQuery
    /\ pc = "done" =>
          /\ report = ReportOf(unifiedOutcome, shardOutcome)
          /\ embed = createResultEmbed(report)

\* the data file does not parse, the command asked for item 40 and got the
\* default title, and the report carries the one price the service returned
C13_Witness ==
    /\ dataFile = Corrupt
    /\ koreanItemDB = <<>>
    /\ pc = "done" /\ ~FellBack
    /\ request = [itemId |-> 40, itemName |-> [named |-> FALSE, id |-> 40]]
    /\ Len(PayloadListings) = 1
    /\ report.servers[1].minPriceNQ = Num(30)
    /\ embed.starred[1]

====
